---- MODULE Spec2Model ----
(***************************************************************************)
(* Model of src/AppleTV_Search_tool.py: the storefront lookup, the         *)
(* relevance score, the shelf/item normalisation loop of ATVSearch.search  *)
(* and the command line entry point main.                                  *)
(*                                                                         *)
(* Python strings are sequences of one-character strings, so that lower(), *)
(* upper(), isdigit(), split(), startswith(), `in` and the ordering of     *)
(* strings are computed rather than assumed.                               *)
(***************************************************************************)
EXTENDS Integers, Sequences, FiniteSets, TLC

\* ------------------------------------------------------------------ bounds

\* Longest title and longest query drawn for the scoring specification.
MaxTitleLen == 4
MaxQueryLen == 2
\* Most shelves in a search response, most items in one shelf.
MaxShelves == 2
MaxItems == 2

\* ----------------------------------------------------------------- strings

UpperChars == <<"A", "B", "C", "D", "E", "F", "G", "H", "I", "J", "K", "L", "M",
                "N", "O", "P", "Q", "R", "S", "T", "U", "V", "W", "X", "Y", "Z">>
LowerChars == <<"a", "b", "c", "d", "e", "f", "g", "h", "i", "j", "k", "l", "m",
                "n", "o", "p", "q", "r", "s", "t", "u", "v", "w", "x", "y", "z">>
DigitChars == <<"0", "1", "2", "3", "4", "5", "6", "7", "8", "9">>
\* The characters of the model in ascending code point order.
CodeOrder == <<"\t", " ", "/", ".">> \o DigitChars \o UpperChars \o LowerChars

Range(s) == {s[i] : i \in DOMAIN s}

\* The code point order of two characters is the order of their places in CodeOrder.
CodeOf == [c \in Range(CodeOrder) |-> CHOOSE i \in DOMAIN CodeOrder : CodeOrder[i] = c]

Code(c) == CodeOf[c]

LowerOf ==
    [c \in Range(UpperChars) |->
        LowerChars[CHOOSE i \in DOMAIN UpperChars : UpperChars[i] = c]]

UpperOf ==
    [c \in Range(LowerChars) |->
        UpperChars[CHOOSE i \in DOMAIN LowerChars : LowerChars[i] = c]]

\* str.lower() and str.upper(), one character.
LowerChar(c) == IF c \in DOMAIN LowerOf THEN LowerOf[c] ELSE c

UpperChar(c) == IF c \in DOMAIN UpperOf THEN UpperOf[c] ELSE c

Lower(s) == [i \in DOMAIN s |-> LowerChar(s[i])]

Upper(s) == [i \in DOMAIN s |-> UpperChar(s[i])]

\* str.isdigit(): non-empty and every character a digit.
IsDigit(s) == Len(s) > 0 /\ \A i \in DOMAIN s : s[i] \in Range(DigitChars)

\* sub in s
Contains(sub, s) ==
    \E i \in 0..(Len(s) - Len(sub)) : SubSeq(s, i + 1, i + Len(sub)) = sub

\* s.startswith(p)
StartsWith(s, p) == Len(p) <= Len(s) /\ SubSeq(s, 1, Len(p)) = p

IsSpace(c) == c \in {" ", "\t"}

\* str.split() without arguments: the maximal runs of non-whitespace.
RECURSIVE SplitFrom(_, _, _)
SplitFrom(s, i, word) ==
    IF i > Len(s)
    THEN IF word = <<>> THEN <<>> ELSE <<word>>
    ELSE IF IsSpace(s[i])
         THEN (IF word = <<>> THEN <<>> ELSE <<word>>) \o SplitFrom(s, i + 1, <<>>)
         ELSE SplitFrom(s, i + 1, Append(word, s[i]))

Split(s) == SplitFrom(s, 1, <<>>)

\* Python's ordering of strings: a < b, by code point, a proper prefix first.
RECURSIVE StrLess(_, _)
StrLess(a, b) ==
    IF b = <<>> THEN FALSE
    ELSE IF a = <<>> THEN TRUE
    ELSE IF a[1] # b[1] THEN Code(a[1]) < Code(b[1])
    ELSE StrLess(Tail(a), Tail(b))

\* ----------------------------------------------------------- _score_result

ExactBonus == 1000
PrefixBonus == 500
BoundedBonus == 300
SubstringBonus == 200
WordBonus == 50
PositionBase == 100


\* The chain with the two substring bonuses exchanged.
TierScoreSwapped(title_lower, query_lower) ==
    IF title_lower = query_lower THEN ExactBonus
    ELSE IF StartsWith(title_lower, query_lower) THEN PrefixBonus
    ELSE IF Contains(<<" ">> \o query_lower, <<" ">> \o title_lower) THEN SubstringBonus
    ELSE IF Contains(query_lower, title_lower) THEN BoundedBonus
    ELSE 0

\* The exact / prefix / contains chain of lines 141-148.
TierScore(title_lower, query_lower) ==
    IF title_lower = query_lower THEN ExactBonus
    ELSE IF StartsWith(title_lower, query_lower) THEN PrefixBonus
    ELSE IF Contains(<<" ">> \o query_lower, <<" ">> \o title_lower) THEN BoundedBonus
    ELSE IF Contains(query_lower, title_lower) THEN SubstringBonus
    ELSE 0

\* The loop of lines 151-155: one bonus per query word found among the title's words.
WordScore(title_lower, query_lower) ==
    LET query_words == Split(query_lower)
        title_words == Split(title_lower)
    IN  WordBonus * Cardinality({i \in DOMAIN query_words :
                                    query_words[i] \in Range(title_words)})

PositionScore(position) ==
    IF PositionBase - position > 0 THEN PositionBase - position ELSE 0

ScoreResult(title, query, position) ==
    LET title_lower == Lower(title)
        query_lower == Lower(query)
    IN  TierScore(title_lower, query_lower)
        + WordScore(title_lower, query_lower)
        + PositionScore(position)

\* ------------------------------------------------------------ JSON values

\* A decoded JSON value is tagged with its Python type. A list carries its length
\* only: its elements are read one at a time, as the loops iterate over them.
PyNone == [t |-> "none"]
PyInt(n) == [t |-> "int", v |-> n]
PyStr(s) == [t |-> "str", v |-> s]
PyDict(f) == [t |-> "dict", v |-> f]
PyList(n) == [t |-> "list", len |-> n]

EmptyDict == PyDict(<<>>)

\* Only a dict has .get; on any other value the call raises AttributeError.
HasGet(x) == x.t = "dict"

\* d.get(key, default)
Get(d, key, default) == IF key \in DOMAIN d.v THEN d.v[key] ELSE default

\* bool(x)
Truthy(x) ==
    CASE x.t = "none" -> FALSE
      [] x.t = "int" -> x.v # 0
      [] x.t = "str" -> x.v # <<>>
      [] x.t = "dict" -> DOMAIN x.v # {}
      [] x.t = "list" -> x.len > 0

RECURSIVE IntToStr(_)
IntToStr(n) ==
    IF n < 10 THEN <<DigitChars[n + 1]>>
    ELSE IntToStr(n \div 10) \o <<DigitChars[(n % 10) + 1]>>

\* str(x) for the values a storefrontId can hold.
Str(x) ==
    CASE x.t = "none" -> <<"N", "o", "n", "e">>
      [] x.t = "int" -> IntToStr(x.v)
      [] x.t = "str" -> x.v

KeyData == <<"d", "a", "t", "a">>
KeyCanvas == <<"c", "a", "n", "v", "a", "s">>
KeyShelves == <<"s", "h", "e", "l", "v", "e", "s">>
KeyStorefrontId == <<"s", "t", "o", "r", "e", "f", "r", "o", "n", "t", "I", "d">>
KeyName == <<"n", "a", "m", "e">>

\* --------------------------------------------------------------- storefront

US_STOREFRONT == <<"1", "4", "3", "4", "4", "1">>
GB_STOREFRONT == <<"1", "4", "3", "4", "4", "4">>
RegionGB == <<"G", "B">>
RegionDE == <<"D", "E">>

\* What the storefronts endpoint can answer: a failed transport, a non-success
\* status, a body that is no JSON, or a JSON body.
RegionRecords ==
    << PyDict(KeyStorefrontId :> PyInt(143444)),
       PyDict(KeyStorefrontId :> PyStr(GB_STOREFRONT)),
       PyDict(KeyStorefrontId :> PyNone),
       PyDict(KeyName :> PyStr(RegionGB)),
       EmptyDict,
       PyStr(RegionGB),
       PyNone >>

LookupBodies ==
    << PyList(0),
       EmptyDict,
       PyDict(KeyData :> PyNone),
       PyDict(KeyData :> EmptyDict),
       PyDict(KeyData :> PyDict(RegionDE :> RegionRecords[1])) >>
    \o [i \in DOMAIN RegionRecords |->
            PyDict(KeyData :> PyDict(RegionGB :> RegionRecords[i]))]

LookupResponses ==
    << [kind |-> "transport_error", body |-> PyNone],
       [kind |-> "http_error", body |-> PyNone],
       [kind |-> "bad_json", body |-> PyNone] >>
    \o [i \in DOMAIN LookupBodies |-> [kind |-> "json", body |-> LookupBodies[i]]]

\* get_storefront_for_region: the value returned for a response. Every exception
\* raised inside the try block is caught and leads to `return None`.
GetStorefrontForRegion(region, resp) ==
    IF resp.kind # "json" THEN PyNone
    ELSE IF ~HasGet(resp.body) THEN PyNone
    ELSE LET data == Get(resp.body, KeyData, EmptyDict)
         IN  IF ~HasGet(data) THEN PyNone
             ELSE LET region_data == Get(data, Upper(region), PyNone)
                  IN  IF ~Truthy(region_data) THEN PyNone
                      ELSE IF ~HasGet(region_data) THEN PyNone
                      ELSE PyStr(Str(Get(region_data, KeyStorefrontId, PyNone)))

\* Lines 70-81: the fallback to the US storefront.
StorefrontOrDefault(storefront_id) ==
    IF Truthy(storefront_id) THEN storefront_id ELSE PyStr(US_STOREFRONT)

\* ------------------------------------------------------------------ search

\* What the search endpoint can answer. A non-empty shelves list is PyList(n);
\* its shelves and their items are drawn as the loops of lines 196 and 207 reach them.
SearchBodies ==
    << PyList(0),
       EmptyDict,
       PyDict(KeyData :> PyNone),
       PyDict(KeyData :> EmptyDict),
       PyDict(KeyData :> PyDict(KeyCanvas :> PyNone)),
       PyDict(KeyData :> PyDict(KeyCanvas :> EmptyDict)),
       PyDict(KeyData :> PyDict(KeyCanvas :> PyDict(KeyShelves :> PyNone))),
       PyDict(KeyData :> PyDict(KeyCanvas :> PyDict(KeyShelves :> PyList(0)))),
       PyDict(KeyData :> PyDict(KeyCanvas :> PyDict(KeyShelves :> PyInt(5)))),
       PyDict(KeyData :> PyDict(KeyCanvas :> PyDict(KeyShelves :> PyStr(KeyName)))) >>
    \o [n \in 1..MaxShelves |->
            PyDict(KeyData :> PyDict(KeyCanvas :> PyDict(KeyShelves :> PyList(n))))]

SearchResponses ==
    << [kind |-> "transport_error", body |-> PyNone],
       [kind |-> "http_error", body |-> PyNone],
       [kind |-> "bad_json", body |-> PyNone] >>
    \o [i \in DOMAIN SearchBodies |-> [kind |-> "json", body |-> SearchBodies[i]]]

\* Lines 181-187: session.get, raise_for_status and resp.json() raise a
\* requests.RequestException (requests.JSONDecodeError is one since requests 2.27),
\* which the except clause catches.
RequestFails(resp) == resp.kind # "json"

\* Line 189: data.get("data", {}).get("canvas", {}).get("shelves", []). The
\* statement is outside the try block: a .get on a value that is no dict raises.
ShelvesOf(body) ==
    IF ~HasGet(body) THEN [raised |-> TRUE, shelves |-> PyNone]
    ELSE LET data == Get(body, KeyData, EmptyDict)
         IN  IF ~HasGet(data) THEN [raised |-> TRUE, shelves |-> PyNone]
             ELSE LET canvas == Get(data, KeyCanvas, EmptyDict)
                  IN  IF ~HasGet(canvas) THEN [raised |-> TRUE, shelves |-> PyNone]
                      ELSE [raised |-> FALSE,
                            shelves |-> Get(canvas, KeyShelves, PyList(0))]

\* Line 196: `for shelf in shelves` followed by shelf.get on each element: a number is
\* not iterable, the elements of a string are strings without .get.
IterableOfShelves(shelves) == shelves.t = "list"

S_PN == <<"P", "N">>
S_people == <<"p", "e", "o", "p", "l", "e">>
S_show == <<"/", "s", "h", "o", "w", "/">>
S_movie == <<"/", "m", "o", "v", "i", "e", "/">>
S_person == <<"/", "p", "e", "r", "s", "o", "n", "/">>
W_movie == <<"m", "o", "v", "i", "e">>
W_show == <<"s", "h", "o", "w">>
W_series == <<"s", "e", "r", "i", "e", "s">>
S_Unknown == <<"U", "n", "k", "n", "o", "w", "n">>


\* The test without lower().
PeopleShelfNoLower(shelf_id) ==
    Contains(S_PN, shelf_id) \/ Contains(S_people, shelf_id)

\* Lines 200-202: "PN" in shelf_id or "people" in shelf_id.lower()
PeopleShelf(shelf_id) ==
    Contains(S_PN, shelf_id) \/ Contains(S_people, Lower(shelf_id))

\* Lines 199-203: the shelf is skipped.
SkipsShelf(include_people, shelf_id) == ~include_people /\ PeopleShelf(shelf_id)


\* The test without "/person/".
ValidUrlNoPerson(url) ==
    url # <<>> /\ (Contains(S_show, url) \/ Contains(S_movie, url))

\* Lines 220-224, negated: the url has a recognised shape.
ValidUrl(url) ==
    url # <<>>
    /\ (Contains(S_show, url) \/ Contains(S_movie, url) \/ Contains(S_person, url))


\* The filter that knows "show" but not "series".
PassesFilterNoSeries(filter_type, url) ==
    IF filter_type = <<>> \/ filter_type[1] = <<>> THEN TRUE
    ELSE LET ft == Lower(filter_type[1])
             is_movie == Contains(S_movie, url)
             is_show == Contains(S_show, url)
         IN  /\ ~(ft = W_movie /\ ~is_movie)
             /\ ~(ft = W_show /\ ~is_show)

\* Lines 228-235: filter_type is None (<<>>) or a string (<<s>>).
PassesFilter(filter_type, url) ==
    IF filter_type = <<>> \/ filter_type[1] = <<>> THEN TRUE
    ELSE LET ft == Lower(filter_type[1])
             is_movie == Contains(S_movie, url)
             is_show == Contains(S_show, url)
         IN  /\ ~(ft = W_movie /\ ~is_movie)
             /\ ~(ft \in {W_show, W_series} /\ ~is_show)


\* The test without `content_id in seen_ids`.
SkipsItemNoSeen(content_id, seen) == content_id = ""

\* Line 209: the item is passed over.
SkipsItem(content_id, seen) == content_id = "" \/ content_id \in seen


\* The id recorded behind the url and filter checks, for kept items only.
MarkSeenIfKept(seen, content_id, kept) ==
    IF kept THEN seen \cup {content_id} ELSE seen

\* Line 212: seen_ids.add(content_id), before the url and filter checks.
MarkSeen(seen, content_id, kept) == seen \cup {content_id}

\* Line 214: item.get("title", "Unknown")
TitleOf(item) == IF item.title = <<>> THEN S_Unknown ELSE item.title[1]

\* Line 251: the sort key (-score, title), compared as Python compares tuples.
KeyLess(a, b) ==
    a.score > b.score \/ (a.score = b.score /\ StrLess(a.title, b.title))

\* list.sort is stable: an entry goes behind every entry whose key is not greater.
RECURSIVE InsertSorted(_, _)
InsertSorted(e, sorted) ==
    IF sorted = <<>> THEN <<e>>
    ELSE IF KeyLess(e, Head(sorted)) THEN <<e>> \o sorted
    ELSE <<Head(sorted)>> \o InsertSorted(e, Tail(sorted))

RECURSIVE SortFrom(_, _)
SortFrom(rs, sorted) ==
    IF rs = <<>> THEN sorted ELSE SortFrom(Tail(rs), InsertSorted(Head(rs), sorted))

SortResults(rs) == SortFrom(rs, <<>>)

\* Lines 253-254: max_results is None (<<>>) or an integer (<<k>>).
Truncate(rs, max_results) ==
    IF max_results # <<>> /\ max_results[1] > 0
    THEN SubSeq(rs, 1, IF max_results[1] < Len(rs) THEN max_results[1] ELSE Len(rs))
    ELSE rs


\* The slice taken before the sort.
TruncateThenSort(rs, max_results) == SortResults(Truncate(rs, max_results))

\* Lines 250-256.
SortAndTruncate(rs, max_results) == Truncate(SortResults(rs), max_results)

\* ------------------------------------------------------------------- inputs

\* The ids of the items. "" stands for an id that is absent, None or empty:
\* `not content_id` holds of each.
Ids == {"X", "Y"}
\* -sf: absent, a numeric storefront id, a region code.
StorefrontArgs == {<<>>, <<GB_STOREFRONT>>, <<Lower(RegionGB)>>}
\* --type: absent or one of the choices of line 306.
FilterArgs == {<<>>, <<W_movie>>, <<W_show>>, <<W_series>>}
\* --max-results: absent or an integer.
MaxResultsArgs == {<<>>} \cup {<<k>> : k \in -1..Cardinality(Ids)}
Queries == {<<"b">>}

ShelfIds == {<<"x", ".", "P", "N">>, <<"P", "e", "o", "p", "l", "e">>, <<"p", "n">>}
ItemIds == {""} \cup Ids
\* An absent title is <<>>, a title t is <<t>>.
ItemTitles == {<< <<"B">> >>, << <<"b">> >>}
ItemUrls == {<<>>, <<"/", "x", "/">>, S_movie, S_show, S_person}
Items == [id : ItemIds, title : ItemTitles, url : ItemUrls]

\* -------------------------------------------------------------------- state

VARIABLES
    pc,                 \* where the run is
    args,               \* the namespace parse_args returned
    region,             \* main's local `region`
    self_storefront_id, \* ATVSearch.storefront_id
    include_people,     \* ATVSearch.include_people
    lookup_resp,        \* the storefronts response (index in LookupResponses, 0: none)
    lookup_result,      \* what get_storefront_for_region returned
    http_log,           \* the requests issued and the responses received, in order
    query,              \* search's parameters
    filter_type,
    max_results,
    search_resp,        \* the search response (index in SearchResponses, 0: none)
    shelves_len,        \* len(shelves) of the search response
    shelf_log,          \* the shelves reached so far: their id, and whether skipped
    position,           \* enumerate's position in the current shelf
    seen_ids,
    results,
    appended,           \* results as accumulated, before the sort
    returned,           \* the list search returned
    outcome,            \* of search: "running", "returned", "raised"
    exit_code,          \* of the process: -1 while it runs, 0, 1 after a traceback
    first_occ,          \* id -> the shelf of its first occurrence in the response, 0: none
    first_iter,         \* id -> <<shelf, position, url>> of the first occurrence the
                        \* loop over the items reached
    later,              \* ids with a later occurrence that was passed over as seen
                        \* though its url and the filter would have let it through
    sc_query, sc_position, sc_first, sc_second   \* the scoring specification

cli_vars == <<args, region, exit_code>>
object_vars == <<self_storefront_id, include_people>>
lookup_vars == <<lookup_resp, lookup_result>>
call_vars == <<query, filter_type>>
loop_vars == <<shelves_len, shelf_log, position, seen_ids, results, first_occ,
               first_iter, later>>
return_vars == <<max_results, appended, returned>>
score_vars == <<sc_query, sc_position, sc_first, sc_second>>
vars == <<pc, cli_vars, object_vars, lookup_vars, http_log, call_vars, search_resp,
          loop_vars, return_vars, outcome, score_vars>>

NoArgs == [version |-> FALSE, storefront |-> <<>>, include_people |-> FALSE,
           filter_type |-> <<>>, query |-> <<>>]

\* Nothing has been asked of the network, no search has run.
Idle ==
    /\ lookup_resp = 0
    /\ lookup_result = PyNone
    /\ http_log = <<>>
    /\ query = <<>>
    /\ filter_type = <<>>
    /\ max_results = <<>>
    /\ search_resp = 0
    /\ shelves_len = 0
    /\ shelf_log = <<>>
    /\ position = 0
    /\ seen_ids = {}
    /\ results = <<>>
    /\ appended = <<>>
    /\ returned = <<>>
    /\ outcome = "running"
    /\ exit_code = -1
    /\ first_occ = [i \in Ids |-> 0]
    /\ first_iter = [i \in Ids |-> <<>>]
    /\ later = {}

InitScoreIdle ==
    /\ sc_query = <<>>
    /\ sc_position = 0
    /\ sc_first = <<>>
    /\ sc_second = <<>>

\* After construction: an ATVSearch made with neither storefront id nor region
\* (lines 78-81 give it the US storefront) and with either value of include_people.
Init ==
    /\ pc = "constructed"
    /\ args = NoArgs
    /\ region = PyNone
    /\ self_storefront_id = StorefrontOrDefault(PyNone)
    /\ include_people \in BOOLEAN
    /\ Idle
    /\ InitScoreIdle

\* The process starts: main has not parsed its arguments yet.
InitMain ==
    /\ pc = "start"
    /\ args = NoArgs
    /\ region = PyNone
    /\ self_storefront_id = PyNone
    /\ include_people = FALSE
    /\ Idle
    /\ InitScoreIdle

\* ------------------------------------------------------------------- search

Request(url) == [op |-> "request", url |-> url]
Response(url) == [op |-> "response", url |-> url]

\* Lines 179-182: search(query, max_results, filter_type) sends its request.
\* max_results is read at line 253 only and is drawn there. The locals of the
\* constructor are gone.
StartSearch(q, ft) ==
    /\ pc = "constructed"
    /\ query' = q
    /\ filter_type' = ft
    /\ http_log' = Append(http_log, Request("search"))
    /\ lookup_resp' = 0
    /\ lookup_result' = PyNone
    /\ pc' = "search_wait"
    /\ UNCHANGED <<cli_vars, object_vars, search_resp, loop_vars, return_vars,
                   outcome, score_vars>>

\* searcher.search(...) called by a user of the class.
SearchCall == \E q \in Queries, ft \in FilterArgs : StartSearch(q, ft)

\* Lines 185-187: the request failed; search returns [].
SearchFails ==
    /\ pc = "search_wait"
    /\ \E i \in DOMAIN SearchResponses :
        /\ RequestFails(SearchResponses[i])
        /\ search_resp' = i
    /\ http_log' = Append(http_log, Response("search"))
    /\ returned' = <<>>
    /\ outcome' = "returned"
    /\ pc' = "returned"
    /\ UNCHANGED <<cli_vars, object_vars, lookup_vars, call_vars, loop_vars,
                   max_results, appended, score_vars>>

\* Lines 189 and 196-197: an exception no except clause catches leaves search.
SearchRaises ==
    /\ pc = "search_wait"
    /\ \E i \in DOMAIN SearchResponses :
        LET resp == SearchResponses[i]
            got == ShelvesOf(resp.body)
        IN  /\ ~RequestFails(resp)
            /\ \/ got.raised
               \/ ~got.raised /\ Truthy(got.shelves) /\ ~IterableOfShelves(got.shelves)
            /\ search_resp' = i
    /\ http_log' = Append(http_log, Response("search"))
    /\ outcome' = "raised"
    /\ pc' = "raising"
    /\ UNCHANGED <<cli_vars, object_vars, lookup_vars, call_vars, loop_vars,
                   return_vars, score_vars>>

\* Lines 190-191: `if not shelves: return []`
SearchEmpty ==
    /\ pc = "search_wait"
    /\ \E i \in DOMAIN SearchResponses :
        LET resp == SearchResponses[i]
            got == ShelvesOf(resp.body)
        IN  /\ ~RequestFails(resp) /\ ~got.raised /\ ~Truthy(got.shelves)
            /\ search_resp' = i
    /\ http_log' = Append(http_log, Response("search"))
    /\ returned' = <<>>
    /\ outcome' = "returned"
    /\ pc' = "returned"
    /\ UNCHANGED <<cli_vars, object_vars, lookup_vars, call_vars, loop_vars,
                   max_results, appended, score_vars>>

\* Lines 193-196: the loop over the shelves starts.
SearchShelves ==
    /\ pc = "search_wait"
    /\ \E i \in DOMAIN SearchResponses :
        LET resp == SearchResponses[i]
            got == ShelvesOf(resp.body)
        IN  /\ ~RequestFails(resp) /\ ~got.raised
            /\ Truthy(got.shelves) /\ IterableOfShelves(got.shelves)
            /\ shelves_len' = got.shelves.len
            /\ search_resp' = i
    /\ http_log' = Append(http_log, Response("search"))
    /\ pc' = "shelves"
    /\ UNCHANGED <<cli_vars, object_vars, lookup_vars, call_vars, shelf_log,
                   position, seen_ids, results, first_occ, first_iter, later,
                   return_vars, outcome, score_vars>>

\* Shelves are counted from 1, in response order.
RecordShelf(f, ids, shelf) ==
    [id \in Ids |-> IF f[id] = 0 /\ id \in ids THEN shelf ELSE f[id]]

RecordFirst(f, id, place) ==
    IF id # "" /\ f[id] = <<>> THEN [f EXCEPT ![id] = place] ELSE f

\* Lines 196-203: the next shelf is a people shelf and is passed over. Its items are
\* never read; the ids they hold are noted for the record only.
SkipShelf ==
    /\ pc = "shelves"
    /\ Len(shelf_log) < shelves_len
    /\ \E shelf_id \in ShelfIds, ids \in SUBSET Ids :
        /\ SkipsShelf(include_people, shelf_id)
        /\ shelf_log' = Append(shelf_log, [id |-> shelf_id, skipped |-> TRUE])
        /\ first_occ' = RecordShelf(first_occ, ids, Len(shelf_log) + 1)
    /\ UNCHANGED <<pc, cli_vars, object_vars, lookup_vars, http_log, call_vars,
                   search_resp, shelves_len, position, seen_ids, results,
                   first_iter, later, return_vars, outcome, score_vars>>

\* Lines 196-207: the next shelf is entered.
EnterShelf ==
    /\ pc = "shelves"
    /\ Len(shelf_log) < shelves_len
    /\ \E shelf_id \in ShelfIds :
        /\ ~SkipsShelf(include_people, shelf_id)
        /\ shelf_log' = Append(shelf_log, [id |-> shelf_id, skipped |-> FALSE])
    /\ position' = 0
    /\ pc' = "items"
    /\ UNCHANGED <<cli_vars, object_vars, lookup_vars, http_log, call_vars,
                   search_resp, shelves_len, seen_ids, results, first_occ,
                   first_iter, later, return_vars, outcome, score_vars>>

\* Lines 239-248: the entry appended for an item; shelf and position say where the
\* item stood.
Entry(item, q, shelf, pos) ==
    [score |-> ScoreResult(TitleOf(item), q, pos), id |-> item.id,
     title |-> TitleOf(item), url |-> item.url, shelf |-> shelf, position |-> pos]

\* Lines 207-248: one pass of the loop over the items of the current shelf.
NextItem ==
    /\ pc = "items"
    /\ position < MaxItems
    /\ \E item \in Items :
        LET shelf == Len(shelf_log)
            skip == SkipsItem(item.id, seen_ids)
            qualifies == ValidUrl(item.url) /\ PassesFilter(filter_type, item.url)
            kept == ~skip /\ qualifies
        IN  /\ seen_ids' = IF skip THEN seen_ids ELSE MarkSeen(seen_ids, item.id, kept)
            /\ results' = IF kept
                          THEN Append(results, Entry(item, query, shelf, position))
                          ELSE results
            /\ first_occ' = RecordShelf(first_occ, {item.id}, shelf)
            /\ first_iter' = RecordFirst(first_iter, item.id,
                                          <<shelf, position, item.url>>)
            /\ later' = IF item.id # "" /\ first_iter[item.id] # <<>> /\ qualifies
                        THEN later \cup {item.id} ELSE later
    /\ position' = position + 1
    /\ UNCHANGED <<pc, cli_vars, object_vars, lookup_vars, http_log, call_vars,
                   search_resp, shelves_len, shelf_log, return_vars, outcome,
                   score_vars>>

\* Line 207: the items of the current shelf are exhausted. `position` is not read
\* again before enumerate sets it anew, and is put back to 0 here.
EndShelf ==
    /\ pc = "items"
    /\ pc' = "shelves"
    /\ position' = 0
    /\ UNCHANGED <<cli_vars, object_vars, lookup_vars, http_log, call_vars,
                   search_resp, shelves_len, shelf_log, seen_ids, results,
                   first_occ, first_iter, later, return_vars, outcome, score_vars>>

\* Lines 250-256: the shelves are exhausted; sort, truncate, return.
SortTruncate ==
    /\ pc = "shelves"
    /\ Len(shelf_log) = shelves_len
    /\ \E k \in MaxResultsArgs :
        /\ max_results' = k
        /\ returned' = SortAndTruncate(results, k)
    /\ appended' = results
    /\ results' = SortResults(results)
    /\ outcome' = "returned"
    /\ pc' = "returned"
    /\ UNCHANGED <<cli_vars, object_vars, lookup_vars, http_log, call_vars,
                   search_resp, shelves_len, shelf_log, position, seen_ids,
                   first_occ, first_iter, later, score_vars>>

Next ==
    \/ SearchCall
    \/ SearchFails
    \/ SearchRaises
    \/ SearchEmpty
    \/ SearchShelves
    \/ SkipShelf
    \/ EnterShelf
    \/ NextItem
    \/ EndShelf
    \/ SortTruncate

Spec == Init /\ [][Next]_vars

\* --------------------------------------------------------------------- main

\* Line 338: parse_args.
ParseArgs ==
    /\ pc = "start"
    /\ \E v \in BOOLEAN, sf \in StorefrontArgs, ip \in BOOLEAN,
          ft \in FilterArgs, q \in Queries :
            args' = [version |-> v, storefront |-> sf, include_people |-> ip,
                     filter_type |-> ft, query |-> q]
    /\ pc' = "parsed"
    /\ UNCHANGED <<region, exit_code, object_vars, lookup_vars, http_log,
                   call_vars, search_resp, loop_vars, return_vars, outcome,
                   score_vars>>

\* Lines 340-342: --version prints and returns 0.
Version ==
    /\ pc = "parsed"
    /\ args.version
    /\ pc' = "done"
    /\ exit_code' = 0
    /\ UNCHANGED <<args, region, object_vars, lookup_vars, http_log, call_vars,
                   search_resp, loop_vars, return_vars, outcome, score_vars>>

\* Lines 346-353: a storefront argument of digits is an id, any other a region.
MainStorefrontId(a) ==
    IF a.storefront # <<>> /\ a.storefront[1] # <<>> /\ IsDigit(a.storefront[1])
    THEN PyStr(a.storefront[1]) ELSE PyNone

MainRegion(a) ==
    IF a.storefront # <<>> /\ a.storefront[1] # <<>> /\ ~IsDigit(a.storefront[1])
    THEN PyStr(Upper(a.storefront[1])) ELSE PyNone

\* Line 68: `if region and not storefront_id`
NeedsLookup(storefront_id, reg) == Truthy(reg) /\ ~Truthy(storefront_id)

\* Lines 355-361 and 63-81 when no lookup is needed: the object is constructed.
ConstructDirect ==
    /\ pc = "parsed"
    /\ ~args.version
    /\ ~NeedsLookup(MainStorefrontId(args), MainRegion(args))
    /\ region' = MainRegion(args)
    /\ include_people' = args.include_people
    /\ self_storefront_id' = StorefrontOrDefault(MainStorefrontId(args))
    /\ pc' = "constructed"
    /\ UNCHANGED <<args, exit_code, lookup_vars, http_log, call_vars, search_resp,
                   loop_vars, return_vars, outcome, score_vars>>

\* Lines 355-361, 63-69 and 105-118: the constructor asks for the storefronts.
ConstructLookup ==
    /\ pc = "parsed"
    /\ ~args.version
    /\ NeedsLookup(MainStorefrontId(args), MainRegion(args))
    /\ region' = MainRegion(args)
    /\ include_people' = args.include_people
    /\ http_log' = Append(http_log, Request("storefronts"))
    /\ pc' = "lookup_wait"
    /\ UNCHANGED <<args, exit_code, self_storefront_id, lookup_vars, call_vars,
                   search_resp, loop_vars, return_vars, outcome, score_vars>>


\* A failed lookup sends the constructor back to ask again.
AfterLookupRetry(result) == IF result = PyNone THEN "parsed" ELSE "constructed"

\* Lines 124-127: a failed lookup is reported and answered with None; the request
\* is not sent again.
AfterLookup(result) == "constructed"

\* Lines 116-127 and 70-81: the lookup ends, with a storefront id or with None, and
\* the constructor falls back to the US storefront.
LookupResponse ==
    /\ pc = "lookup_wait"
    /\ \E i \in DOMAIN LookupResponses :
        /\ lookup_resp' = i
        /\ lookup_result' = GetStorefrontForRegion(region.v, LookupResponses[i])
    /\ self_storefront_id' = StorefrontOrDefault(lookup_result')
    /\ http_log' = Append(http_log, Response("storefronts"))
    /\ pc' = AfterLookup(lookup_result')
    /\ UNCHANGED <<cli_vars, include_people, call_vars, search_resp, loop_vars,
                   return_vars, outcome, score_vars>>

\* Lines 374-378: main calls search with its arguments.
MainSearch == StartSearch(args.query, args.filter_type)

\* The process ends: the searcher, the response and the lists are gone. What was
\* asked (args), what went over the network and how search ended stay on record.
ProcessEnds ==
    /\ region' = PyNone
    /\ self_storefront_id' = PyNone
    /\ include_people' = FALSE
    /\ query' = <<>>
    /\ filter_type' = <<>>
    /\ max_results' = <<>>
    /\ search_resp' = 0
    /\ shelves_len' = 0
    /\ shelf_log' = <<>>
    /\ position' = 0
    /\ seen_ids' = {}
    /\ results' = <<>>
    /\ appended' = <<>>
    /\ returned' = <<>>
    /\ first_occ' = [i \in Ids |-> 0]
    /\ first_iter' = [i \in Ids |-> <<>>]
    /\ later' = {}
    /\ UNCHANGED <<args, lookup_vars, http_log, outcome, score_vars>>

\* Lines 380-402: main prints the list and returns 0.
MainOutput ==
    /\ pc = "returned"
    /\ pc' = "done"
    /\ exit_code' = 0
    /\ ProcessEnds

\* Line 406: the exception leaves main; the interpreter prints a traceback.
Traceback ==
    /\ pc = "raising"
    /\ pc' = "done"
    /\ exit_code' = 1
    /\ ProcessEnds

NextMain ==
    \/ ParseArgs
    \/ Version
    \/ ConstructDirect
    \/ ConstructLookup
    \/ LookupResponse
    \/ MainSearch
    \/ SearchFails
    \/ SearchRaises
    \/ SearchEmpty
    \/ SearchShelves
    \/ SkipShelf
    \/ EnterShelf
    \/ NextItem
    \/ EndShelf
    \/ SortTruncate
    \/ MainOutput
    \/ Traceback

SpecMain == InitMain /\ [][NextMain]_vars

\* ------------------------------------------------------------------ scoring

ScoreAlphabet == {"a", "A", " ", "\t"}
ScorePositions == {0, 100}
StringsUpTo(n) == UNION {[1..k -> ScoreAlphabet] : k \in 0..n}

\* Which branch of the chain of lines 141-148 a title takes: 4 exact, 3 prefix,
\* 2 substring behind a space, 1 substring, 0 none.
MatchTier(title, q) ==
    LET title_lower == Lower(title)
        query_lower == Lower(q)
    IN  IF title_lower = query_lower THEN 4
        ELSE IF StartsWith(title_lower, query_lower) THEN 3
        ELSE IF Contains(<<" ">> \o query_lower, <<" ">> \o title_lower) THEN 2
        ELSE IF Contains(query_lower, title_lower) THEN 1
        ELSE 0

\* What one call of _score_result shows: the tier of the title, its word bonus and
\* the score returned.
Scored(title, q, pos) ==
    [tier |-> MatchTier(title, q),
     words |-> WordScore(Lower(title), Lower(q)),
     score |-> ScoreResult(title, q, pos)]

\* A query and a position are fixed; two titles are then scored against them.
InitScore ==
    /\ pc = "constructed"
    /\ args = NoArgs
    /\ region = PyNone
    /\ self_storefront_id = StorefrontOrDefault(PyNone)
    /\ include_people = FALSE
    /\ Idle
    /\ sc_query \in StringsUpTo(MaxQueryLen)
    /\ sc_position \in ScorePositions
    /\ sc_first = <<>>
    /\ sc_second = <<>>

ScoreFirst ==
    /\ sc_first = <<>>
    /\ \E title \in StringsUpTo(MaxTitleLen) :
        sc_first' = <<Scored(title, sc_query, sc_position)>>
    /\ UNCHANGED <<pc, cli_vars, object_vars, lookup_vars, http_log, call_vars,
                   search_resp, loop_vars, return_vars, outcome, sc_query,
                   sc_position, sc_second>>

ScoreSecond ==
    /\ sc_first # <<>>
    /\ sc_second = <<>>
    /\ \E title \in StringsUpTo(MaxTitleLen) :
        sc_second' = <<Scored(title, sc_query, sc_position)>>
    /\ UNCHANGED <<pc, cli_vars, object_vars, lookup_vars, http_log, call_vars,
                   search_resp, loop_vars, return_vars, outcome, sc_query,
                   sc_position, sc_first>>

NextScore == ScoreFirst \/ ScoreSecond

SpecScore == InitScore /\ [][NextScore]_vars

\* ------------------------------------------------------------------- claims

Entries(rs) == {rs[i] : i \in DOMAIN rs}

NoDuplicateIds(rs) == \A i, j \in DOMAIN rs : i # j => rs[i].id # rs[j].id

\* Where the loop over the items first reached an id: <<shelf, position>>.
FirstPlace(id) == <<first_iter[id][1], first_iter[id][2]>>
FirstUrl(id) == first_iter[id][3]

\* C1 as stated: no two entries of the returned list have the same id, and each
\* entry comes from the first occurrence of its id in the response, shelves taken
\* in response order.
C1_FirstInResponse ==
    pc = "returned" =>
        /\ NoDuplicateIds(returned)
        /\ \A r \in Entries(returned) : r.shelf = first_occ[r.id]

\* C1 amended: no two entries of the returned list have the same id, and each entry
\* is built from the first occurrence of its id among the shelves that are not
\* skipped as people shelves (shelves in response order, items in order).
C1_FirstReached ==
    pc = "returned" =>
        /\ NoDuplicateIds(returned)
        /\ \A r \in Entries(returned) :
            /\ first_iter[r.id] # <<>>
            /\ <<r.shelf, r.position>> = FirstPlace(r.id)
            /\ r.url = FirstUrl(r.id)

\* An entry is returned whose id came up again later and was passed over.
C1_Witness ==
    /\ pc = "returned"
    /\ \E r \in Entries(returned) : r.id \in later

\* A list is in the order of line 251: score descending, equal scores by title
\* ascending.
InOrder(rs) ==
    \A i, j \in DOMAIN rs :
        i < j => \/ rs[i].score > rs[j].score
                 \/ rs[i].score = rs[j].score /\ ~StrLess(rs[j].title, rs[i].title)

ExpectedLen(k, n) ==
    IF k # <<>> /\ k[1] > 0 THEN (IF k[1] < n THEN k[1] ELSE n) ELSE n

\* C2: the returned list is ordered by score descending, ties by title ascending,
\* and is the first min(k, n) entries of the sorted list of all n qualifying entries
\* for a positive max_results k, the whole sorted list otherwise.
C2_SortedThenTruncated ==
    pc = "returned" =>
        /\ InOrder(returned)
        /\ InOrder(results)
        /\ Len(results) = Len(appended)
        /\ Entries(results) = Entries(appended)
        /\ returned = SubSeq(results, 1, ExpectedLen(max_results, Len(results)))

\* Two entries of equal score were accumulated in the other order, and only the
\* first of the sorted list is returned.
C2_Witness ==
    /\ pc = "returned"
    /\ Len(appended) = 2
    /\ appended[1].score = appended[2].score
    /\ appended # results
    /\ max_results = <<1>>
    /\ Len(returned) = 1

\* C3: at the same position, a title of a higher match tier (exact > prefix >
\* substring behind a space > substring) has a strictly greater total score than a
\* title of a lower tier, the word bonus included.
C3_TierDominates ==
    (/\ sc_first # <<>>
     /\ sc_second # <<>>
     /\ sc_second[1].tier >= 1
     /\ sc_first[1].tier > sc_second[1].tier)
    => sc_first[1].score > sc_second[1].score

\* A title matched behind a space without word bonus against a bare substring match
\* with a word bonus.
C3_Witness ==
    /\ sc_first # <<>>
    /\ sc_second # <<>>
    /\ sc_first[1].tier = 2
    /\ sc_second[1].tier = 1
    /\ sc_second[1].words > sc_first[1].words

\* The response holds a non-empty list at data.canvas.shelves.
HasShelfList(resp) ==
    /\ resp.kind = "json"
    /\ \E n \in 1..MaxShelves :
        resp.body = PyDict(KeyData :> PyDict(KeyCanvas :> PyDict(KeyShelves :> PyList(n))))

\* C4: no exception leaves search, and search returns [] when the request fails or
\* the body has no list of shelves at data.canvas.shelves.
C4_NeverRaises ==
    /\ outcome # "raised"
    /\ (pc = "returned" /\ ~HasShelfList(SearchResponses[search_resp]))
        => returned = <<>>

\* The lookup failed: no answer, a malformed answer, no record for the region, or a
\* record without storefrontId.
LookupFailed(reg, resp) ==
    \/ resp.kind # "json"
    \/ resp.body.t # "dict"
    \/ KeyData \notin DOMAIN resp.body.v
    \/ resp.body.v[KeyData].t # "dict"
    \/ reg \notin DOMAIN resp.body.v[KeyData].v
    \/ resp.body.v[KeyData].v[reg].t # "dict"
    \/ KeyStorefrontId \notin DOMAIN resp.body.v[KeyData].v[reg].v

\* C5: constructed with a region and no storefront id, a failed lookup returns None
\* and leaves the object with storefront "143441".
C5_FailedLookupFallsBack ==
    (/\ pc = "constructed"
     /\ lookup_resp # 0
     /\ LookupFailed(region.v, LookupResponses[lookup_resp]))
    => /\ lookup_result = PyNone
       /\ self_storefront_id = PyStr(US_STOREFRONT)

\* A shelf id that contains "PN" or, in any case, "people".
ClaimPeopleShelf(shelf_id) ==
    \/ \E i \in 1..(Len(shelf_id) - 1) : shelf_id[i] = "P" /\ shelf_id[i + 1] = "N"
    \/ \E i \in 0..(Len(shelf_id) - Len(S_people)) :
        \A k \in 1..Len(S_people) :
            shelf_id[i + k] \in {S_people[k], UpperChar(S_people[k])}

\* C6: without include_people exactly the people shelves are skipped: no entry comes
\* from one, and an id that occurs in skipped shelves only is not recorded as seen;
\* with include_people no shelf is skipped.
C6_PeopleShelves ==
    /\ \A s \in DOMAIN shelf_log :
        shelf_log[s].skipped <=> (~include_people /\ ClaimPeopleShelf(shelf_log[s].id))
    /\ \A r \in Entries(results) \cup Entries(returned) : ~shelf_log[r.shelf].skipped
    /\ \A id \in seen_ids :
        first_iter[id] # <<>> /\ ~shelf_log[first_iter[id][1]].skipped
    /\ \A id \in Ids : first_iter[id] = <<>> => id \notin seen_ids

\* An id of a skipped people shelf is returned from a later shelf.
C6_Witness ==
    /\ pc = "returned"
    /\ ~include_people
    /\ \E r \in Entries(returned) :
        /\ first_occ[r.id] < r.shelf
        /\ shelf_log[first_occ[r.id]].skipped

\* C7: with filter "movie" every url returned contains "/movie/", with "show" or
\* "series" every one contains "/show/", without filter every one contains "/show/",
\* "/movie/" or "/person/".
C7_FilterUrls ==
    \A r \in Entries(results) \cup Entries(returned) :
        /\ filter_type = <<W_movie>> => Contains(S_movie, r.url)
        /\ filter_type \in {<<W_show>>, <<W_series>>} => Contains(S_show, r.url)
        /\ filter_type = <<>> =>
            \/ Contains(S_show, r.url)
            \/ Contains(S_movie, r.url)
            \/ Contains(S_person, r.url)

\* Under --type series a movie was passed over and a show is returned.
C7_Witness ==
    /\ pc = "returned"
    /\ filter_type = <<W_series>>
    /\ returned # <<>>
    /\ \E id \in Ids : first_iter[id] # <<>> /\ FirstUrl(id) = S_movie

\* The url is recognised and the filter, if any, lets it through.
ClaimQualifies(url, ft) ==
    /\ url # <<>>
    /\ Contains(S_show, url) \/ Contains(S_movie, url) \/ Contains(S_person, url)
    /\ ft = <<W_movie>> => Contains(S_movie, url)
    /\ ft \in {<<W_show>>, <<W_series>>} => Contains(S_show, url)

\* C8: an id whose first occurrence in a shelf that is not skipped is rejected for
\* its url or by the filter is recorded as seen, and no entry is made for it, from
\* that occurrence or from any later one.
C8_RejectedIdIsBurned ==
    \A id \in Ids :
        (first_iter[id] # <<>> /\ ~ClaimQualifies(FirstUrl(id), filter_type))
        => /\ id \in seen_ids
           /\ \A r \in Entries(results) \cup Entries(returned) : r.id # id

\* Search returned, and an id rejected at first has a later occurrence that would
\* have qualified.
C8_Witness ==
    /\ pc = "returned"
    /\ \E id \in later : ~ClaimQualifies(FirstUrl(id), filter_type)

Places(ev) == {i \in DOMAIN http_log : http_log[i] = ev}

\* C9: a run of main issues at most one storefront lookup, and only for an argument
\* that is no number, and at most one search request, after the lookup has ended.
C9_AtMostTwoRequests ==
    /\ Cardinality(Places(Request("storefronts"))) <= 1
    /\ Cardinality(Places(Request("search"))) <= 1
    /\ Places(Request("storefronts")) # {} =>
        args.storefront # <<>> /\ ~IsDigit(args.storefront[1])
    /\ \A i \in Places(Request("storefronts")), j \in Places(Request("search")) :
        \E k \in Places(Response("storefronts")) : i < k /\ k < j

\* The lookup failed, the constructor fell back, and the search request went out.
C9_Witness ==
    /\ pc = "search_wait"
    /\ http_log = <<Request("storefronts"), Response("storefronts"), Request("search")>>
    /\ self_storefront_id = PyStr(US_STOREFRONT)

\* The first occurrence the loop reached of id is a "/person/" item in a shelf that
\* is no people shelf, with include_people unset and no filter.
PersonCase(id) ==
    /\ ~include_people
    /\ filter_type = <<>>
    /\ first_iter[id] # <<>>
    /\ Contains(S_person, FirstUrl(id))
    /\ ~ClaimPeopleShelf(shelf_log[first_iter[id][1]].id)

\* C10 as stated: such an item is in the list search returns.
C10_PersonItemReturned ==
    pc = "returned" =>
        \A id \in Ids :
            PersonCase(id) =>
                \E r \in Entries(returned) : r.id = id /\ Contains(S_person, r.url)

\* C10 amended: such an item gets an entry, and the entry is in the list search
\* returns unless a positive max_results cuts the sorted list off before it.
C10_PersonItemKept ==
    \A id \in Ids :
        PersonCase(id) =>
            \E i \in DOMAIN results :
                /\ results[i].id = id
                /\ Contains(S_person, results[i].url)
                /\ pc = "returned" =>
                    \/ i <= Len(returned) /\ returned[i] = results[i]
                    \/ max_results # <<>> /\ max_results[1] > 0 /\ i > max_results[1]

\* A "/person/" url is returned though include_people is unset.
C10_Witness ==
    /\ pc = "returned"
    /\ \E id \in Ids :
        /\ PersonCase(id)
        /\ \E r \in Entries(returned) : r.id = id /\ Contains(S_person, r.url)

====
